---- MODULE Spec2Model ----
(***************************************************************************)
(* The single-threaded reactor event loop of reactor.c: schedule(), next() *)
(* and main().  Logical and physical instants are integers counted from    *)
(* program start.  The helpers that reactor.c takes from reactor_common.c  *)
(* (__schedule, wait_until, the priority queue, trigger_output_reactions,  *)
(* initialize, __start_timers) are modelled from the specification.        *)
(***************************************************************************)
EXTENDS Integers, FiniteSets, Sequences, TLC

\* ---------------------------------------------------------------- bounds
MaxTime == 3        \* largest instant logical time is advanced to
MaxBack == 1        \* how far below the start instant logical time is followed
MaxEvents == 3      \* event records malloc hands out
MaxSched == 1       \* calls of schedule() made by reactions in one run
MaxIntr == 1        \* interrupted sleeps in one run
MaxReactionQ == 4   \* entries of reaction_q

\* ------------------------------------------------------------- constants
\* instant_t next_time = LLONG_MAX; stands for the largest instant.
LLONG_MAX == 2147483647
NULL == 0

\* --------------------------------------------------- the static program
\* Triggers: a timer with two reactions, a timer no reaction listens to
\* ("clock", number_of_reactions = 0), a logical action, an output port and
\* a deadline-violation trigger.  Reactions 1..4 with their indices.
Triggers == {"timer", "clock", "action", "out", "viol"}
Reactions == 1..4
EventIds == 1..MaxEvents
PayloadIds == 1..(MaxSched + 1)

\* reaction_t.index (topological level)
index == [r \in Reactions |-> CASE r = 1 -> 5 [] r = 2 -> 2 [] r = 3 -> 3 [] OTHER -> 7]
\* reaction_t.deadline (reaction 1 has a deadline and no handler)
deadline == [r \in Reactions |-> IF r \in {1, 3} THEN 1 ELSE 0]
\* reaction_t.deadline_violation
deadline_violation == [r \in Reactions |-> IF r = 3 THEN "viol" ELSE "none"]
\* trigger_t.reactions, in array order
reactions == [t \in Triggers |-> CASE t = "timer" -> <<1, 2>> [] t = "action" -> <<3>>
                                    [] t = "out" -> <<3>> [] t = "viol" -> <<4>>
                                    [] OTHER -> <<>>]
\* the output triggers a reaction may produce
outputs == [r \in Reactions |-> IF r = 2 THEN {"out"} ELSE {}]
\* the actions a reaction's body may schedule
effects == [r \in Reactions |-> IF r \in {2, 3} THEN {"action"} ELSE {}]

ExtraDelays == (0 - 1) .. 1
Offsets == 0 .. 2
Periods == 0 .. 2
StopTimes == {0, 2}

VARIABLES
    \* command line and trigger declarations (fixed after start)
    offset, period, timers, stop_time, wait_specified, fast,
    \* globals of the runtime
    current_time, physical_time, stop_requested,
    event_q, reaction_q, recycle_q, free_q,
    ev, allocated, trigger_payload, frees,
    \* control: position in main()/next(), locals of next()
    pc, event, next_time, reaction, ret, elapsed_logical_time,
    \* history
    microstep, last_inv, prev_index, info, nsched, npay, nintr,
    pay, tag_payloads, timer_fires, popped_time, hook_called, ret_from

cfgvars == <<offset, period, timers, stop_time, wait_specified, fast>>
queues == <<event_q, reaction_q, recycle_q, free_q>>
vars == <<offset, period, timers, stop_time, wait_specified, fast,
          current_time, physical_time, stop_requested,
          event_q, reaction_q, recycle_q, free_q,
          ev, allocated, trigger_payload, frees,
          pc, event, next_time, reaction, ret, elapsed_logical_time,
          microstep, last_inv, prev_index, info, nsched, npay, nintr,
          pay, tag_payloads, timer_fires, popped_time, hook_called, ret_from>>

\* ------------------------------------------------------------- helpers
Range(s) == {s[i] : i \in 1..Len(s)}
InsertAt(q, i, x) == SubSeq(q, 1, i - 1) \o <<x>> \o SubSeq(q, i, Len(q))

\* pqueue_insert: every order a min-heap may give to equal priorities.
pqueue_insert(q, x, pri) ==
    { InsertAt(q, i, x) :
        i \in { k \in 1..(Len(q) + 1) :
                  /\ \A j \in 1..(k - 1) : pri[q[j]] <= pri[x]
                  /\ \A j \in k..Len(q) : pri[q[j]] >= pri[x] } }

\* pqueue_peek: the minimum, NULL on an empty queue.
pqueue_peek(q) == IF q = <<>> THEN NULL ELSE Head(q)

NoInfo == [by |-> "none", c |-> 0, mu |-> 0, d |-> 0]
NoEvent == [time |-> 0, trigger |-> "none", payload |-> NULL]

\* pqueue_pop on a pool: every record of a pool carries time 0, so the heap
\* hands them out in the order of its array; the least record stands for it.
pool_pop(rq) == CHOOSE e \in rq : \A x \in rq : e <= x

\* __schedule(trigger, delay, payload): take a record from recycle_q or a
\* fresh one, stamp it current_time + delay and insert it into event_q.
\* The result is every state of the queues the call may produce.
__schedule(q, rq, evs, alloc, trigger, delay, payload) ==
    LET recs == IF rq # {} THEN {pool_pop(rq)}
                ELSE IF alloc < MaxEvents THEN {alloc + 1} ELSE {}
    IN UNION { LET evs2 == [evs EXCEPT ![e] = [time |-> current_time + delay,
                                               trigger |-> trigger,
                                               payload |-> payload]]
                   pri == [x \in EventIds |-> evs2[x].time]
               IN { [event_q |-> nq, recycle_q |-> rq \ {e}, ev |-> evs2,
                     allocated |-> IF rq # {} THEN alloc ELSE alloc + 1,
                     e |-> e] : nq \in pqueue_insert(q, e, pri) } : e \in recs }

\* The state after construction, for a program that starts one of the
\* given sets of timers.
InitOf(programs) ==
    /\ timers \in programs
    /\ offset \in [{"timer", "clock", "action"} -> Offsets]
    /\ period \in [{"timer", "clock"} -> Periods]
    \* the declarations of a trigger that is never scheduled are not read
    /\ \A t \in {"timer", "clock"} \ timers : offset[t] = 0 /\ period[t] = 0
    /\ "timer" \notin timers => offset["action"] = 0
    /\ offset["action"] <= 1
    /\ stop_time \in StopTimes
    /\ wait_specified \in BOOLEAN
    \* a periodic timer keeps event_q non-empty, and -wait is read only when
    \* event_q is empty
    /\ (period["timer"] > 0 \/ period["clock"] > 0) => ~wait_specified
    /\ fast \in BOOLEAN
    /\ current_time = 0
    /\ physical_time = 0
    /\ stop_requested = FALSE
    /\ event_q = <<>>
    /\ reaction_q = <<>>
    /\ recycle_q = {}
    /\ free_q = {}
    /\ ev = [e \in EventIds |-> NoEvent]
    /\ allocated = 0
    /\ trigger_payload = [t \in Triggers |-> NULL]
    /\ frees = [p \in PayloadIds |-> 0]
    /\ pc = "start"
    /\ event = NULL
    /\ next_time = 0
    /\ reaction = 0
    /\ ret = 1
    /\ elapsed_logical_time = 0
    /\ microstep = 0
    /\ last_inv = [valid |-> FALSE, time |-> 0, micro |-> 0]
    /\ prev_index = 0 - 1
    /\ info = [e \in EventIds |-> NoInfo]
    /\ nsched = 0
    /\ npay = 0
    /\ nintr = 0
    /\ pay = [p \in PayloadIds |-> "unused"]
    /\ tag_payloads = {}
    /\ timer_fires = 0
    /\ popped_time = 0
    /\ hook_called = FALSE
    /\ ret_from = "none"

\* Programs without a timer and programs whose timer has reactions.
Init == InitOf({{}, {"timer"}})

\* trigger->offset and trigger->period (0 where none is declared)
Offset(t) == IF t \in DOMAIN offset THEN offset[t] ELSE 0
Period(t) == IF t \in DOMAIN period THEN period[t] ELSE 0

RECURSIVE InsertAll(_, _)
\* pqueue_insert(reaction_q, r) for each r of rs, in order
InsertAll(q, rs) ==
    IF rs = <<>> THEN {q}
    ELSE UNION { InsertAll(q2, Tail(rs)) : q2 \in pqueue_insert(q, Head(rs), index) }

\* Mutant: the reactions are appended in array order instead of by index.
InsertReactions_append(q, t) == {q \o reactions[t]}

\* for (i < event->trigger->number_of_reactions) pqueue_insert(reaction_q, ...)
InsertReactions(q, t) == InsertAll(q, reactions[t])

\* trigger_output_reactions(reaction): the reactions of every output
\* trigger the reaction produced are inserted into reaction_q.
RECURSIVE trigger_output_reactions(_, _)
trigger_output_reactions(q, produced) ==
    IF produced = {} THEN {q}
    ELSE LET t == CHOOSE x \in produced : TRUE
         IN UNION { trigger_output_reactions(q2, produced \ {t}) :
                      q2 \in InsertReactions(q, t) }

\* wait_until(logical_time): the outcomes of the wait.
\*  - the wait is completed: logical time becomes the awaited instant
\*    (result 0); in fast mode there is no sleep and this is at once;
\*  - the stop time is reached before the awaited instant (a stop request
\*    interrupts the wait): logical time becomes stop_time, result -1, the
\*    case "the stop time has been reached. Time has not advanced to the
\*    time of the event" of reactor.c:54-55;
\*  - the sleep is interrupted by a signal before the awaited instant and
\*    the stop time: logical time is the physical time of the interrupt,
\*    result -1.
\* A wait for an instant beyond the stop time may end in either of the first
\* two ways.
wait_until(logical_time) ==
    LET beyond == stop_time > 0 /\ logical_time > stop_time
        first == IF beyond THEN stop_time ELSE logical_time
        sleeps(target) == ~fast /\ physical_time < target
        upto == IF first > MaxTime THEN MaxTime ELSE first - 1
        done == [current_time |-> logical_time,
                 physical_time |-> IF sleeps(logical_time) THEN logical_time
                                   ELSE physical_time,
                 ret |-> 0, interrupted |-> FALSE]
        stopped == [current_time |-> stop_time,
                    physical_time |-> IF sleeps(stop_time) THEN stop_time
                                      ELSE physical_time,
                    ret |-> 0 - 1, interrupted |-> FALSE]
        intr == { [current_time |-> IF p > current_time THEN p ELSE current_time,
                   physical_time |-> p, ret |-> 0 - 1, interrupted |-> TRUE] :
                  p \in physical_time..upto }
    IN (IF sleeps(logical_time) /\ logical_time = LLONG_MAX THEN {} ELSE {done})
       \cup (IF beyond THEN {stopped} ELSE {})
       \cup (IF sleeps(first) THEN intr ELSE {})

\* Mutant: > in place of >=.
StopCheck_strict(t) == stop_time > 0 /\ t > stop_time

\* stop_time > 0LL && current_time >= stop_time
StopCheck(t) == stop_time > 0 /\ t >= stop_time

\* while (next() != 0 && !stop_requested);
MainLoop(r, stop) == IF r # 0 /\ ~stop THEN "loop" ELSE "done"

\* schedule(trigger, extra_delay, payload)
schedule(trigger, extra_delay, payload) ==
    __schedule(event_q, recycle_q, ev, allocated, trigger,
               Offset(trigger) + extra_delay, payload)

history == <<microstep, last_inv, prev_index, nsched, npay, nintr,
             pay, tag_payloads, timer_fires, popped_time, hook_called, ret_from>>

\* ----------------------------------------------------------- main()
\* initialize(); __start_timers(): every timer is scheduled at its offset.
\* (a program starts at most one timer).
StartTimers ==
    /\ pc = "start"
    /\ IF timers = {}
       THEN UNCHANGED <<event_q, recycle_q, ev, allocated, info>>
       ELSE \E tm \in timers :
            \E s \in __schedule(event_q, recycle_q, ev, allocated,
                                tm, Offset(tm), NULL) :
              /\ event_q' = s.event_q
              /\ recycle_q' = s.recycle_q
              /\ ev' = s.ev
              /\ allocated' = s.allocated
              /\ info' = [info EXCEPT ![s.e] = [by |-> "start", c |-> current_time,
                                                mu |-> microstep, d |-> Offset(tm)]]
    /\ pc' = "loop"
    /\ UNCHANGED <<cfgvars, current_time, physical_time, stop_requested,
                   reaction_q, free_q, trigger_payload, frees,
                   event, next_time, reaction, ret, elapsed_logical_time, history>>

\* ----------------------------------------------------------- next()
\* next() returns: its locals (event, next_time, reaction) go out of scope.
Return ==
    /\ event' = NULL
    /\ next_time' = 0
    /\ reaction' = 0
    /\ prev_index' = 0 - 1

\* Mutant: the empty-queue return also requests a stop, as the other
\* return-0 paths do.
NextEmptyReturn_stop ==
    /\ pc = "loop"
    /\ pqueue_peek(event_q) = NULL
    /\ ~wait_specified
    /\ ret' = 0
    /\ ret_from' = "empty"
    /\ stop_requested' = TRUE
    /\ pc' = MainLoop(0, TRUE)
    /\ Return
    /\ UNCHANGED <<cfgvars, current_time, physical_time, queues,
                   ev, allocated, trigger_payload, frees,
                   elapsed_logical_time, microstep, last_inv, info,
                   nsched, npay, nintr, pay, tag_payloads, timer_fires, popped_time, hook_called>>

\* event == NULL and -wait not given: return 0.
NextEmptyReturn ==
    /\ pc = "loop"
    /\ pqueue_peek(event_q) = NULL
    /\ ~wait_specified
    /\ ret' = 0
    /\ ret_from' = "empty"
    /\ pc' = MainLoop(0, stop_requested)
    /\ Return
    /\ UNCHANGED <<cfgvars, current_time, physical_time, stop_requested, queues,
                   ev, allocated, trigger_payload, frees,
                   elapsed_logical_time, microstep, last_inv, info,
                   nsched, npay, nintr, pay, tag_payloads, timer_fires, popped_time, hook_called>>

\* Peek the head of event_q and set next_time.
NextPeek ==
    /\ pc = "loop"
    /\ ~(pqueue_peek(event_q) = NULL /\ ~wait_specified)
    /\ event' = pqueue_peek(event_q)
    /\ next_time' = IF event' = NULL THEN LLONG_MAX ELSE ev[event'].time
    /\ pc' = "wait"
    /\ UNCHANGED <<cfgvars, current_time, physical_time, stop_requested, queues,
                   ev, allocated, trigger_payload, frees, reaction, ret,
                   elapsed_logical_time, info, history>>

\* if (wait_until(next_time) < 0) {...}; __start_time_step();
WaitUntil ==
    /\ pc = "wait"
    /\ \E o \in wait_until(next_time) :
         LET new_event == pqueue_peek(event_q) IN
         /\ o.interrupted => nintr < MaxIntr
         /\ o.current_time = LLONG_MAX
              \/ (o.current_time >= 0 - MaxBack /\ o.current_time <= MaxTime)
         /\ current_time' = o.current_time
         /\ physical_time' = o.physical_time
         /\ nintr' = IF o.interrupted THEN nintr + 1 ELSE nintr
         /\ IF o.ret < 0 /\ new_event = event
                /\ (StopCheck(o.current_time) \/ new_event = NULL)
            THEN /\ stop_requested' = TRUE
                 /\ ret' = 0
                 /\ ret_from' = "wait"
                 /\ pc' = MainLoop(0, TRUE)
                 /\ Return
                 /\ UNCHANGED <<microstep, hook_called>>
            ELSE /\ event' = new_event
                 /\ next_time' = IF o.ret < 0 /\ new_event # event
                                 THEN ev[new_event].time ELSE next_time
                 /\ hook_called' = TRUE
                 /\ microstep' = IF o.current_time = current_time
                                 THEN microstep + 1 ELSE 0
                 /\ reaction' = 0
                 /\ prev_index' = 0 - 1
                 /\ pc' = "drain"
                 /\ UNCHANGED <<stop_requested, ret, ret_from>>
    /\ UNCHANGED <<cfgvars, queues, ev, allocated, trigger_payload, frees,
                   elapsed_logical_time, last_inv, info, nsched, npay,
                   pay, tag_payloads, timer_fires, popped_time>>

\* event = pqueue_pop(event_q) on an empty queue is NULL; event->trigger
\* dereferences it.
DrainNull ==
    /\ pc = "drain"
    /\ event_q = <<>>
    /\ pc' = "crash"
    /\ UNCHANGED <<cfgvars, current_time, physical_time, stop_requested, queues,
                   ev, allocated, trigger_payload, frees, event, next_time,
                   reaction, ret, elapsed_logical_time, info, history>>

\* Pop the head event, insert its trigger's reactions and reschedule a
\* periodic trigger with delay period - offset.
DrainPop ==
    /\ pc = "drain"
    /\ event_q # <<>>
    /\ LET e == Head(event_q)
           t == ev[e].trigger
       IN \* reaction_q is followed up to MaxReactionQ entries
          /\ Len(reaction_q) + Len(reactions[t]) <= MaxReactionQ
          /\ event' = e
          /\ popped_time' = ev[e].time
          /\ reaction_q' \in InsertReactions(reaction_q, t)
          /\ IF Period(t) > 0
             THEN \E s \in __schedule(Tail(event_q), recycle_q, ev, allocated,
                                      t, Period(t) - Offset(t), NULL) :
                    /\ event_q' = s.event_q
                    /\ recycle_q' = s.recycle_q
                    /\ ev' = s.ev
                    /\ allocated' = s.allocated
                    /\ info' = [info EXCEPT ![s.e] =
                                  [by |-> "period", c |-> current_time,
                                   mu |-> microstep, d |-> Period(t) - Offset(t)]]
             ELSE /\ event_q' = Tail(event_q)
                  /\ UNCHANGED <<recycle_q, ev, allocated, info>>
          /\ tag_payloads' = IF ev[e].payload = NULL THEN tag_payloads
                             ELSE tag_payloads \cup {ev[e].payload}
          /\ pay' = IF ev[e].payload = NULL THEN pay
                    ELSE [pay EXCEPT ![ev[e].payload] = "popped"]
    /\ pc' = "park"
    /\ UNCHANGED <<cfgvars, current_time, physical_time, stop_requested, free_q,
                   trigger_payload, frees, next_time, reaction, ret,
                   elapsed_logical_time, microstep, last_inv, prev_index,
                   nsched, npay, nintr, timer_fires, hook_called, ret_from>>

\* Mutant: every event is recycled at once, payload or not.
ParkEvent_recycle ==
    recycle_q' = recycle_q \cup {event} /\ free_q' = free_q

\* if (event->payload == NULL) recycle_q else free_q
ParkEvent ==
    IF ev[event].payload = NULL
    THEN recycle_q' = recycle_q \cup {event} /\ free_q' = free_q
    ELSE free_q' = free_q \cup {event} /\ recycle_q' = recycle_q

\* Deliver the payload, zero the time stamp, park the record and peek at
\* the next event: the drain loop continues while its time is current_time.
DrainPark ==
    /\ pc = "park"
    /\ trigger_payload' = [trigger_payload EXCEPT ![ev[event].trigger] = ev[event].payload]
    /\ ev' = [ev EXCEPT ![event].time = 0]
    /\ info' = [info EXCEPT ![event] = NoInfo]
    /\ ParkEvent
    /\ event' = pqueue_peek(event_q)
    /\ pc' = IF event' # NULL /\ ev[event'].time = current_time
             THEN "drain" ELSE "invoke"
    /\ timer_fires' = IF ev[event].trigger = "timer" THEN timer_fires + 1
                      ELSE timer_fires
    /\ UNCHANGED <<cfgvars, current_time, physical_time, stop_requested,
                   event_q, reaction_q, allocated, frees, next_time, reaction,
                   ret, elapsed_logical_time, microstep, last_inv, prev_index,
                   nsched, npay, nintr, pay, tag_payloads, popped_time,
                   hook_called, ret_from>>

\* Mutant: the reaction loop stops one reaction short.
ReactionLoopDone_short == Len(reaction_q) <= 1

\* while (pqueue_size(reaction_q) > 0) has ended
ReactionLoopDone == reaction_q = <<>>

\* reaction_t* reaction = pqueue_pop(reaction_q);
NextReaction == Head(reaction_q)

\* clock_gettime(CLOCK_REALTIME, ...): the clock has not moved since it was
\* last read, or it is past the reaction's deadline.
ClockSamples(r) ==
    IF deadline[r] > 0
    THEN {physical_time,
          IF physical_time > current_time + deadline[r] THEN physical_time
          ELSE current_time + deadline[r] + 1}
    ELSE {physical_time}

\* Mutant: >= in place of >.
DeadlineViolated_geq(r, now) ==
    /\ deadline[r] > 0
    /\ now >= current_time + deadline[r]
    /\ deadline_violation[r] # "none"

\* physical_time > current_time + reaction->deadline, with a handler
DeadlineViolated(r, now) ==
    /\ deadline[r] > 0
    /\ now > current_time + deadline[r]
    /\ deadline_violation[r] # "none"

\* Pop the least reaction; on a deadline violation its handler runs first.
InvokeReaction ==
    /\ pc = "invoke"
    /\ ~ReactionLoopDone
    /\ reaction' = NextReaction
    /\ reaction_q' = Tail(reaction_q)
    /\ prev_index' = IF reaction = 0 THEN 0 - 1 ELSE index[reaction]
    /\ \E now \in ClockSamples(NextReaction) :
         /\ physical_time' = now
         /\ pc' = IF DeadlineViolated(NextReaction, now) THEN "handling" ELSE "reacting"
    /\ UNCHANGED <<cfgvars, current_time, stop_requested,
                   event_q, recycle_q, free_q, ev, allocated, trigger_payload,
                   frees, event, next_time, ret, elapsed_logical_time,
                   microstep, last_inv, info, nsched, npay, nintr, pay,
                   tag_payloads, timer_fires, popped_time, hook_called, ret_from>>

\* The violation handler returns; the reaction itself is invoked next.
HandlerReturn ==
    /\ pc = "handling"
    /\ last_inv' = [valid |-> TRUE, time |-> current_time, micro |-> microstep]
    /\ pc' = "reacting"
    /\ UNCHANGED <<cfgvars, current_time, physical_time, stop_requested, queues,
                   ev, allocated, trigger_payload, frees, event, next_time,
                   reaction, ret, elapsed_logical_time, microstep, prev_index,
                   info, nsched, npay, nintr, pay, tag_payloads, timer_fires, popped_time,
                   hook_called, ret_from>>

\* A running reaction calls schedule(action, extra_delay, payload); limit
\* bounds the calls of one run.
ScheduleUpTo(limit) ==
    /\ pc = "reacting"
    /\ "action" \in effects[reaction]
    /\ nsched < limit
    /\ \E d \in ExtraDelays, fresh \in BOOLEAN :
         /\ LET p == IF fresh THEN npay + 1 ELSE NULL IN
            \E s \in schedule("action", d, p) :
              /\ event_q' = s.event_q
              /\ recycle_q' = s.recycle_q
              /\ ev' = s.ev
              /\ allocated' = s.allocated
              /\ info' = [info EXCEPT ![s.e] = [by |-> "schedule", c |-> current_time,
                                                mu |-> microstep, d |-> d]]
              /\ npay' = IF fresh THEN npay + 1 ELSE npay
              /\ pay' = IF fresh THEN [pay EXCEPT ![p] = "queued"] ELSE pay
    /\ nsched' = nsched + 1
    /\ UNCHANGED <<cfgvars, current_time, physical_time, stop_requested,
                   reaction_q, free_q, trigger_payload, frees, pc, event,
                   next_time, reaction, ret, elapsed_logical_time, microstep,
                   last_inv, prev_index, nintr, tag_payloads, timer_fires, popped_time,
                   hook_called, ret_from>>

Schedule == ScheduleUpTo(MaxSched)

\* One more call of schedule() than Schedule allows.
ScheduleAgain == ScheduleUpTo(MaxSched + 1)

\* reaction->function returns; trigger_output_reactions(reaction).
ReactionReturn ==
    /\ pc = "reacting"
    /\ \E produced \in SUBSET outputs[reaction] :
         /\ Len(reaction_q) + Cardinality(produced) <= MaxReactionQ
         /\ reaction_q' \in trigger_output_reactions(reaction_q, produced)
    /\ last_inv' = [valid |-> TRUE, time |-> current_time, micro |-> microstep]
    /\ pc' = "invoke"
    /\ UNCHANGED <<cfgvars, current_time, physical_time, stop_requested,
                   event_q, recycle_q, free_q, ev, allocated, trigger_payload, frees, event,
                   next_time, reaction, ret, elapsed_logical_time, microstep,
                   prev_index, info, nsched, npay, nintr, pay, tag_payloads,
                   timer_fires, popped_time, hook_called, ret_from>>

\* Mutant: the payload is freed but the record is not put back.
FreeLoop_drop ==
    /\ frees' = [p \in PayloadIds |->
                   frees[p] + Cardinality({e \in free_q : ev[e].payload = p})]
    /\ recycle_q' = recycle_q
    /\ free_q' = {}

\* free(free_event->payload); pqueue_insert(recycle_q, free_event);
FreeLoop ==
    /\ frees' = [p \in PayloadIds |->
                   frees[p] + Cardinality({e \in free_q : ev[e].payload = p})]
    /\ recycle_q' = recycle_q \cup free_q
    /\ free_q' = {}

\* reaction_q is empty: free the parked payloads, then the stop check.
FreePayloads ==
    /\ pc = "invoke"
    /\ ReactionLoopDone
    /\ FreeLoop
    /\ tag_payloads' = {}
    /\ IF StopCheck(current_time)
       THEN stop_requested' = TRUE /\ ret' = 0
       ELSE stop_requested' = stop_requested /\ ret' = 1
    /\ ret_from' = "end"
    /\ pc' = MainLoop(ret', stop_requested')
    /\ Return
    /\ UNCHANGED <<cfgvars, current_time, physical_time, event_q, reaction_q,
                   ev, allocated, trigger_payload,
                   elapsed_logical_time, microstep, last_inv, info,
                   nsched, npay, nintr, pay, timer_fires, popped_time, hook_called>>

\* wrapup(): elapsed logical time since the start instant (0).
Wrapup ==
    /\ pc = "done"
    /\ elapsed_logical_time' = current_time - 0
    /\ pc' = "exit"
    /\ UNCHANGED <<cfgvars, current_time, physical_time, stop_requested, queues,
                   ev, allocated, trigger_payload, frees, event, next_time,
                   reaction, ret, info, history>>

Next ==
    \/ StartTimers
    \/ NextEmptyReturn
    \/ NextPeek
    \/ WaitUntil
    \/ DrainNull
    \/ DrainPop
    \/ DrainPark
    \/ InvokeReaction
    \/ HandlerReturn
    \/ Schedule
    \/ ReactionReturn
    \/ FreePayloads
    \/ Wrapup

Spec == Init /\ [][Next]_vars

\* A program in fast mode with a one-shot timer and an action, both of
\* offset 0, and no stop time, whose reactions may call schedule() once more.
InitPay ==
    /\ Init
    /\ timers = {"timer"}
    /\ fast
    /\ stop_time = 0
    /\ period["timer"] = 0
    /\ offset["timer"] = 0
    /\ offset["action"] = 0

NextPay == Next \/ ScheduleAgain

PaySpec == InitPay /\ [][NextPay]_vars

\* ------------------------------------------------------------ properties
TagLeq(t1, m1, t2, m2) == t1 < t2 \/ (t1 = t2 /\ m1 <= m2)
Max0(d) == IF d > 0 THEN d ELSE 0
Invoking == pc \in {"handling", "reacting"}
InFlight == IF pc = "park" THEN {event} ELSE {}

\* C1: the tag at which a reaction is invoked is never smaller than the tag
\* of the reaction invoked before it (stated for runs whose waits were all
\* completed, which is enough to refute it).
C1_TagsNeverDecrease ==
    (Invoking /\ last_inv.valid /\ nintr = 0)
        => TagLeq(last_inv.time, last_inv.micro, current_time, microstep)

\* C2: within one iteration of next(), the reactions taken from reaction_q
\* are invoked in non-decreasing index order.
C2_IndexOrder == Invoking => prev_index <= index[reaction]

\* C2 witness: the timer lists its reactions as (index 5, index 2); the
\* reaction of index 5 is invoked right after the one of index 2.
C2_Witness == pc = "reacting" /\ reaction = 1 /\ prev_index = 2

\* C3: an event made by schedule(t, d, p) at tag (c, mu) is popped at tag
\* (c + offset + max(0,d), mu + 1) when offset + d = 0, and at
\* (c + offset + d, 0) otherwise (stated for runs whose waits were all
\* completed).
C3_FiringTag ==
    (pc = "park" /\ info[event].by = "schedule" /\ nintr = 0) =>
        LET i == info[event]
            off == Offset(ev[event].trigger)
        IN IF off + i.d = 0
           THEN current_time = i.c + off + Max0(i.d) /\ microstep = i.mu + 1
           ELSE current_time = i.c + off + i.d /\ microstep = 0

\* C4: no event of event_q carries a time earlier than the logical time at
\* which it was inserted (stated for runs whose waits were all completed).
C4_NoPastInsertion ==
    nintr = 0 =>
        \A e \in Range(event_q) : info[e].by # "none" => ev[e].time >= info[e].c

\* C5: a periodic timer's k-th firing (k = 0, 1, ...) happens at logical
\* time offset + k * period (stated for runs whose waits were all completed).
C5_PeriodicInstants ==
    (pc = "park" /\ ev[event].trigger = "timer" /\ Period("timer") > 0 /\ nintr = 0)
        => current_time = Offset("timer") + timer_fires * Period("timer")

\* C6: with a stop time configured, no reaction is invoked at a tag whose
\* instant is greater than stop_time: the event whose reactions are being
\* invoked carries a time no greater than stop_time (stated for iterations
\* whose logical time has not passed the stop time).
C6_NoReactionAfterStop ==
    (Invoking /\ stop_time > 0 /\ current_time <= stop_time)
        => popped_time <= stop_time

\* C7: an iteration that processed a tag returns 0 and sets the stop flag
\* exactly when stop_time > 0 and current_time >= stop_time, else returns 1;
\* by then reaction_q is empty and reactions were invoked at that tag.
C7_StopAfterDrain ==
    (ret_from = "end" /\ pc \in {"loop", "done"}) =>
        /\ ret = IF stop_time > 0 /\ current_time >= stop_time THEN 0 ELSE 1
        /\ stop_requested = (ret = 0)
        /\ reaction_q = <<>>
        /\ last_inv = [valid |-> TRUE, time |-> current_time, micro |-> microstep]

\* C7 witness: the tag at the stop time was processed, its reactions ran,
\* and next() returned 0.
C7_Witness ==
    /\ ret_from = "end"
    /\ pc = "done"
    /\ ret = 0
    /\ current_time = stop_time
    /\ last_inv.time = stop_time

\* C8: a payload is never freed twice; it is not freed before the iteration
\* that popped its event has run all its reactions; and it has been freed
\* once that iteration is over.
C8_PayloadFreedOnce ==
    \A p \in PayloadIds :
        /\ frees[p] <= 1
        /\ frees[p] = 1 => (pay[p] = "popped" /\ p \notin tag_payloads)
        /\ (pay[p] = "popped" /\ p \notin tag_payloads) => frees[p] = 1
        /\ p \in tag_payloads => pc \in {"drain", "park", "invoke", "handling", "reacting"}

\* C8 witness: a payload has been freed and every allocated record is in
\* use again, so the record that carried it was recycled and reused.
C8_Witness ==
    /\ \E p \in PayloadIds : frees[p] = 1
    /\ allocated = 2
    /\ pc = "park"
    /\ Len(event_q) = 1

\* C9: event_q, recycle_q, free_q and the record in flight are pairwise
\* disjoint and together hold every allocated record.
C9_RecordPartition ==
    LET Q == Range(event_q) IN
    /\ Len(event_q) = Cardinality(Q)
    /\ Q \cup recycle_q \cup free_q \cup InFlight = 1..allocated
    /\ Q \cap recycle_q = {}
    /\ Q \cap free_q = {}
    /\ Q \cap InFlight = {}
    /\ recycle_q \cap free_q = {}
    /\ recycle_q \cap InFlight = {}
    /\ free_q \cap InFlight = {}

\* C9 witness: one record in flight, one parked in free_q and one in event_q.
C9_Witness == pc = "park" /\ free_q # {} /\ event_q # <<>>

\* C10: with event_q empty and no -wait, next() returns 0 and leaves time,
\* the stop flag, the queues and the history of hooks and reactions as they
\* were; a program without timers ends with zero elapsed logical time.
C10_EmptyQueueReturn ==
    /\ [][(pc = "loop" /\ event_q = <<>> /\ ~wait_specified) =>
            /\ pc' = "done"
            /\ ret' = 0
            /\ UNCHANGED <<current_time, physical_time, nintr, stop_requested,
                           event_q, reaction_q, recycle_q, free_q,
                           hook_called, last_inv, microstep>>]_vars
    /\ [](pc = "exit" /\ timers = {} /\ ~wait_specified
            => elapsed_logical_time = 0)

\* C10 witness: next() has returned from the empty-queue branch after
\* earlier iterations ran reactions.
C10_Witness == pc = "done" /\ ret_from = "empty" /\ last_inv.valid

\* C11: when a reaction r is popped from reaction_q, the handler of its
\* deadline-violation trigger runs exactly when r has a deadline, the clock
\* sampled at dispatch is strictly later than the current instant plus that
\* deadline and a violation trigger is registered; the handler runs once,
\* before r, and leaves reaction_q alone; r runs once in either case.
C11_DeadlinePolicy ==
    [][/\ (pc = "invoke" /\ reaction_q # <<>>) =>
            LET r == Head(reaction_q) IN
            /\ reaction' = r
            /\ pc' = IF /\ deadline[r] > 0
                         /\ physical_time' > current_time + deadline[r]
                         /\ deadline_violation[r] # "none"
                      THEN "handling" ELSE "reacting"
       /\ pc = "handling" =>
            /\ pc' = "reacting"
            /\ reaction' = reaction
            /\ reaction_q' = reaction_q
       /\ (pc = "reacting" /\ pc' # "reacting") =>
            /\ pc' = "invoke"
            /\ reaction' = reaction]_vars

\* C11 witness: the handler of reaction 3 is running, the clock being past
\* the deadline, with further reactions still waiting in reaction_q.
C11_Witness ==
    /\ pc = "handling"
    /\ reaction = 3
    /\ physical_time > current_time + deadline[3]
    /\ reaction_q # <<>>

\* the events made by schedule(t, 0, p) on a trigger of offset 0
Chained(e) ==
    /\ info[e].by = "schedule"
    /\ info[e].d = 0
    /\ Offset(ev[e].trigger) = 0

\* C12: an event made by schedule with offset 0 and extra_delay 0 at tag
\* (c, mu) stays queued only until the drain of the next iteration: it is
\* popped at instant c, one microstep later, and no reaction is invoked at
\* another tag while it is still queued (stated for runs whose waits were
\* all completed).
C12_SuperdenseChaining ==
    nintr = 0 =>
        /\ (pc = "park" /\ Chained(event)) =>
              /\ current_time = info[event].c
              /\ microstep = info[event].mu + 1
        /\ \A e \in Range(event_q) :
              (Chained(e) /\ Invoking) =>
                  /\ current_time = info[e].c
                  /\ microstep = info[e].mu

\* Also the program whose only timer is one no reaction listens to.
InitClock == InitOf({{}, {"timer"}, {"clock"}})

\* The program runs on: whenever main() has a step to take, it takes it.
FairSpec == InitClock /\ [][Next]_vars /\ WF_vars(Next)

\* reaction_q has reached the length the model follows it to: the insertion
\* the drain loop is about to make is beyond MaxReactionQ entries.
QueueFull ==
    /\ pc = "drain"
    /\ event_q # <<>>
    /\ Len(reaction_q) + Len(reactions[ev[Head(event_q)].trigger]) > MaxReactionQ

\* the main loop has been left
Exited == pc \in {"done", "exit"}

\* C13: with a stop time configured the main loop eventually exits (stated
\* for runs whose waits were all completed, which do not end in the
\* dereference of a null event and in which reaction_q stays within the
\* modelled length).
C13_Termination ==
    (stop_time > 0) ~> (Exited \/ nintr > 0 \/ pc = "crash" \/ QueueFull)

\* C14: no event is popped while the current logical time is still earlier
\* than the event's instant, also after a wait that was interrupted.
C14_InterruptAbsorbed == pc = "park" => ev[event].time <= current_time

\* the reaction loop of this iteration is about to start
InvocationBegins == pc = "invoke" /\ reaction = 0

\* C15: every event is popped at a logical time equal to its own time, and
\* when the reaction loop starts no event of event_q carries the current
\* logical time (stated for runs whose waits were all completed).
C15_DrainExactlyCurrentTag ==
    nintr = 0 =>
        /\ pc = "park" => ev[event].time = current_time
        /\ InvocationBegins =>
              \A e \in Range(event_q) : ev[e].time # current_time

\* C16: reaction_q is empty whenever next() is not between its drain and
\* the end of its reaction loop, and whenever the logical time changes; a
\* reaction triggered only through an output (reaction 3 while no action
\* was scheduled) runs at the tag at which its producer ran, after it.
C16_ReactionQueueDrained ==
    /\ [](pc \in {"loop", "wait", "done", "exit"} => reaction_q = <<>>)
    /\ [][current_time' # current_time =>
             reaction_q = <<>> /\ reaction_q' = <<>>]_vars
    /\ []((Invoking /\ reaction = 3 /\ nsched = 0) =>
             /\ last_inv = [valid |-> TRUE, time |-> current_time,
                            micro |-> microstep]
             /\ prev_index >= index[2])

\* C16 witness: reaction 3, triggered by the output of reaction 2 (no
\* action was scheduled), runs right after it at the same tag, with the
\* reaction of index 5 still waiting in reaction_q.
C16_Witness ==
    /\ pc = "reacting"
    /\ reaction = 3
    /\ nsched = 0
    /\ prev_index = index[2]
    /\ last_inv = [valid |-> TRUE, time |-> current_time, micro |-> microstep]
    /\ reaction_q = <<1>>

\* C17: while a reaction of the action trigger is invoked, the trigger's
\* payload field equals the payload of every event of that trigger drained
\* at this tag, and that payload has not been freed (stated for tags not
\* earlier than the start instant).
C17_PayloadDelivery ==
    (Invoking /\ reaction \in Range(reactions["action"]) /\ current_time >= 0) =>
        \A p \in tag_payloads :
            /\ trigger_payload["action"] = p
            /\ frees[p] = 0

\* C18: no reaction is invoked twice in one iteration of next().  The
\* reactions have distinct indices and are invoked in index order, so a
\* reaction invoked twice is invoked twice in a row (stated for tags not
\* earlier than the start instant).
C18_OncePerTag ==
    (Invoking /\ current_time >= 0) => prev_index # index[reaction]

\* C19: whenever the drain step of next() is reached event_q is not empty,
\* so pqueue_pop never returns NULL there and no null event is dereferenced.
C19_NoEmptyPop ==
    /\ pc = "drain" => event_q # <<>>
    /\ pc # "crash"

\* The event popped by the drain loop was produced by the periodic
\* reschedule of this same drain loop: it was stamped at the current instant
\* of the current iteration and carries the current time.
Repopped(e) ==
    /\ info[e].by = "period"
    /\ info[e].c = current_time
    /\ info[e].mu = microstep
    /\ ev[e].time = current_time

\* C20: the periodic reschedule inside the drain loop never produces an
\* event that the same drain loop pops again, for every period > 0 and every
\* declared offset, so the drain loop pops finitely many events (stated for
\* runs whose waits were all completed).
C20_DrainFinite == (nintr = 0 /\ pc = "park") => ~Repopped(event)
====
